---- MODULE Spec2Model ----
(***************************************************************************)
(* A model of the stdlib chat bot GitHub action (dist/index.js, which      *)
(* bundles the entry point and the OpenAI helpers, and dist/github.js).    *)
(*                                                                         *)
(* Texts are sequences of lexical tokens: a token is a JavaScript          *)
(* substring the regular expressions of the code treat as a unit (a line   *)
(* break, the disclaimer heading, a run of ordinary characters).           *)
(* Similarity scores are integers: vector components are held in tenths,   *)
(* scores and thresholds in hundredths.                                    *)
(***************************************************************************)
EXTENDS Integers, Sequences, FiniteSets, TLC

\* ------------------------------------------------------------------ bounds

\* Longest text (in tokens) drawn as an input of the text functions.
MaxLen == 4
\* Longest corpus drawn as an input of the ranker.
MaxCorpus == 3
\* Largest topN drawn as an input of the ranker.
MaxTopN == 3
\* Longest list of comments drawn as an input of generateHistory.
MaxTurns == 3

\* ------------------------------------------------------- program constants

\* findMostSimilar( embedding, allEmbeddings, topN = 3, threshold = 0.6 )
DefaultTopN == 3
\* 0.6, in hundredths
DefaultThreshold == 60

\* --------------------------------------------------------------- sequences

\* s[a..b], empty when a > b (String.prototype.slice / Array.prototype.slice
\* for 0 <= a-1 <= b <= length).
Slice(s, a, b) == IF a > b THEN <<>> ELSE SubSeq(s, a, b)

\* All sequences over alphabet A of length at most n.
SeqsUpTo(A, n) == UNION {[1..k -> A] : k \in 0..n}

\* ------------------------------------------------------------------- texts

NL == "\n"
HEADING == "### Disclaimer"
BULLET_AI == "-   This answer was generated with the help of AI and is not guaranteed to be correct. We will review the answer and update it if necessary."
BULLET_ASK == "-   You can also ask follow-up questions to clarify the answer or request additional information by leaving a comment on this issue starting with /ask."

\* The literal appended by appendDisclaimer.
DISCLAIMER == <<NL, NL, HEADING, NL, NL, BULLET_AI, NL, BULLET_ASK>>

\* The body of the fallback comment.
APOLOGY == <<"Sorry, I was not able to answer your question.">>

\* A finalizer that appends the disclaimer to a text that already ends with it.
appendDisclaimerTwice(str) == str \o DISCLAIMER \o DISCLAIMER

\* appendDisclaimer( str ): str + the disclaimer literal (/ask is set in backticks there).
appendDisclaimer(str) == str \o DISCLAIMER

\* The positions at which /### Disclaimer[\s\S]+$/ can match: the heading
\* followed by at least one more character.
HeadingMatches(str) == {i \in 1..Len(str) : str[i] = HEADING /\ i < Len(str)}

\* A slip a maintainer could make: the separator before the heading is
\* swallowed too (/\n*### Disclaimer[\s\S]+$/).
RECURSIVE DropTrailingNL(_)
DropTrailingNL(s) ==
    IF s # <<>> /\ s[Len(s)] = NL THEN DropTrailingNL(Slice(s, 1, Len(s) - 1)) ELSE s

stripDisclaimerSeparator(str) ==
    IF HeadingMatches(str) = {} THEN str
    ELSE LET i == CHOOSE k \in HeadingMatches(str) : \A j \in HeadingMatches(str) : k <= j
         IN DropTrailingNL(Slice(str, 1, i - 1))

\* stripDisclaimer( str ): str.replace( /### Disclaimer[\s\S]+$/, "" ).
\* The leftmost match is replaced; it runs to the end of the string.
stripDisclaimer(str) ==
    IF HeadingMatches(str) = {} THEN str
    ELSE LET i == CHOOSE k \in HeadingMatches(str) : \A j \in HeadingMatches(str) : k <= j
         IN Slice(str, 1, i - 1)

\* A history built by prepending: the latest comment comes first.
RECURSIVE generateHistoryPrepending(_)
generateHistoryPrepending(comments) ==
    IF comments = <<>> THEN <<>>
    ELSE generateHistoryPrepending(Tail(comments))
         \o <<comments[1].login, ": ">> \o stripDisclaimer(comments[1].body) \o <<NL>>

\* generateHistory( comments ): login, ": ", stripDisclaimer( body ), "\n" per comment.
RECURSIVE generateHistory(_)
generateHistory(comments) ==
    IF comments = <<>> THEN <<>>
    ELSE <<comments[1].login, ": ">> \o stripDisclaimer(comments[1].body) \o <<NL>>
         \o generateHistory(Tail(comments))

\* --------------------------------------------------------------- sanitizer

\* The tokens the regular expressions of compressContent look for.
\* "/**\n * @license" and "\n */\n": the two ends of a license header.
LICENSE_OPEN == "/**\n * @license"
LICENSE_CLOSE == "\n */\n"
CRLF == "\r\n"
USAGE_OPEN == "<section class=\"usage\">"
SECTION_OPEN == "<section class=\"intro\">"
SECTION_CLOSE == "</section>"
FENCE == "[three backticks]"
\* "[" followed by characters other than a line break and "]:".
LINK_LABEL == "[stdlib]:"
COMMENT_OPEN == "<!--"
COMMENT_CLOSE == "-->"
SPACE == " "
TAB == "\t"

\* /<section class="[^"]+">/ matches every opening tag, the usage one included.
SectionOpens == {USAGE_OPEN, SECTION_OPEN}

\* The two halves of the opening tag <section class="intro">: the tag is the
\* first half, one space and the second half.  With a line break (or more
\* than one space) between them the halves are no tag.
SECTION_HEAD == "<section"
SECTION_ATTR == "class=\"intro\">"
SectionOpenInHalves == <<SECTION_HEAD, SPACE, SECTION_ATTR>>

\* The first position k >= from with text[k] in toks, 0 when there is none.
FirstIn(text, toks, from) ==
    LET S == {k \in from..Len(text) : text[k] \in toks}
    IN IF S = {} THEN 0 ELSE CHOOSE k \in S : \A j \in S : k <= j

\* text.replace( /open[\s\S]*?close/g, '' ): each leftmost opening token is
\* removed together with everything up to the first closing token after it;
\* the scan resumes behind the match.  Without a closing token nothing matches.
RECURSIVE removeSpans(_, _, _)
removeSpans(text, opens, closes) ==
    LET i == FirstIn(text, opens, 1)
        j == IF i = 0 THEN 0 ELSE FirstIn(text, closes, i + 1)
    IN IF i = 0 \/ j = 0 THEN text
       ELSE Slice(text, 1, i - 1)
            \o removeSpans(Slice(text, j + 1, Len(text)), opens, closes)

\* text.replace( /tok/g, '' ) for each tok in toks.
removeTokens(text, toks) == SelectSeq(text, LAMBDA t : t \notin toks)

\* text.replace( /<section class="[^"]+">/g, '' ): every opening tag, whole or
\* written as its two halves with one space between.
RECURSIVE removeSectionOpens(_)
removeSectionOpens(text) ==
    IF text = <<>> THEN <<>>
    ELSE IF text[1] \in SectionOpens THEN removeSectionOpens(Tail(text))
    ELSE IF Len(text) >= 3 /\ Slice(text, 1, 3) = SectionOpenInHalves
         THEN removeSectionOpens(Slice(text, 4, Len(text)))
         ELSE <<text[1]>> \o removeSectionOpens(Tail(text))

\* text.replace( /tok/g, by )
replaceTokens(text, tok, by) == [k \in 1..Len(text) |-> IF text[k] = tok THEN by ELSE text[k]]

\* The length of the run of tok that text begins with.
RECURSIVE RunLen(_, _)
RunLen(text, tok) ==
    IF text = <<>> \/ text[1] # tok THEN 0 ELSE 1 + RunLen(Tail(text), tok)

\* text.replace( /tok{atLeast,}/g, tok repeated keep times ): the quantifier
\* is greedy, so each maximal run of atLeast or more is replaced as a whole.
RECURSIVE collapseRuns(_, _, _, _)
collapseRuns(text, tok, atLeast, keep) ==
    IF text = <<>> THEN <<>>
    ELSE LET n == RunLen(text, tok)
         IN IF n = 0 THEN <<text[1]>> \o collapseRuns(Tail(text), tok, atLeast, keep)
            ELSE [k \in 1..(IF n >= atLeast THEN keep ELSE n) |-> tok]
                 \o collapseRuns(Slice(text, n + 1, Len(text)), tok, atLeast, keep)

\* A quantifier without the comma, /\n{3}/g: each group of exactly three line
\* breaks becomes two, and what is left of a longer run stays.
RECURSIVE collapseNewlinesTriples(_)
collapseNewlinesTriples(text) ==
    IF text = <<>> THEN <<>>
    ELSE IF RunLen(text, NL) >= 3
         THEN <<NL, NL>> \o collapseNewlinesTriples(Slice(text, 4, Len(text)))
         ELSE <<text[1]>> \o collapseNewlinesTriples(Tail(text))

\* text.replace( /\n{3,}/g, '\n\n' )
collapseNewlines(text) == collapseRuns(text, NL, 3, 2)

\* text.replace( /^\n+|\n+$/g, '' ): there is no m flag, so ^ and $ are the
\* two ends of the string.
trimNewlines(text) ==
    LET a == RunLen(text, NL)
        rest == Slice(text, a + 1, Len(text))
        b == RunLen([k \in 1..Len(rest) |-> rest[Len(rest) + 1 - k]], NL)
    IN Slice(rest, 1, Len(rest) - b)

\* A greedy second group, ([\s\S]*): the region runs to the last closing tag.
extractUsageGreedy(text) ==
    LET i == FirstIn(text, {USAGE_OPEN}, 1)
        S == IF i = 0 THEN {} ELSE {k \in (i + 1)..Len(text) : text[k] = SECTION_CLOSE}
    IN IF S = {} THEN text
       ELSE Slice(text, i + 1, (CHOOSE k \in S : \A j \in S : j <= k) - 1)

\* text.replace( /([\s\S]*?)<section class="usage">([\s\S]*?)<\/section>([\s\S]*)/g, '$2' ):
\* the match runs from the start of the text to its end, and $2 is what lies
\* between the first usage tag and the first closing tag after it.
extractUsage(text) ==
    LET i == FirstIn(text, {USAGE_OPEN}, 1)
        j == IF i = 0 THEN 0 ELSE FirstIn(text, {SECTION_CLOSE}, i + 1)
    IN IF i = 0 \/ j = 0 THEN text ELSE Slice(text, i + 1, j - 1)

\* compressContent( text, removeCodeBlocks = true ), statement by statement.
compressContent(text, removeCodeBlocks) ==
    LET t1 == removeSpans(text, {LICENSE_OPEN}, {LICENSE_CLOSE})
        t2 == replaceTokens(t1, CRLF, NL)
        t3 == extractUsage(t2)
        t4 == IF removeCodeBlocks THEN removeSpans(t3, {FENCE}, {FENCE}) ELSE t3
        t5 == removeSpans(t4, {LINK_LABEL}, {NL})
        t6 == removeSpans(t5, {COMMENT_OPEN}, {COMMENT_CLOSE})
        t7 == removeTokens(t6, {SECTION_CLOSE})
        t8 == removeSectionOpens(t7)
        t9 == collapseNewlines(t8)
        t10 == trimNewlines(t9)
        t11 == replaceTokens(t10, NL, SPACE)
        t12 == collapseRuns(t11, SPACE, 2, 1)
    IN collapseRuns(t12, TAB, 2, 1)

\* ---------------------------------------------------------- prompt assembler

FILES_PLACEHOLDER == "{{files}}"
HISTORY_PLACEHOLDER == "{{history}}"
QUESTION_PLACEHOLDER == "{{question}}"

\* The replacement patterns of String.prototype.replace: "$$", "$&", the
\* dollar sign followed by a backtick, and "$'".
DOLLAR_DOLLAR == "$$"
DOLLAR_MATCH == "$&"
DOLLAR_BEFORE == "$[backtick]"
DOLLAR_AFTER == "$'"

INTRO == "I am a highly intelligent question answering bot for programming questions in JavaScript. If you ask me a question that is rooted in truth, I will give you the answer. If you ask me a question that is nonsense, trickery, is not related to the stdlib-js / @stdlib project for JavaScript and Node.js, or has no clear answer, I will respond with \"Unknown.\". If the requested functionality is not available or cannot be implemented using stdlib, I will respond with \"Not yet implemented.\". I will include example code if relevant to the question, formatted as GitHub Flavored Markdown code blocks. After the answer, I will provide a list of Markdown links to the relevant documentation on GitHub under a ## References heading followed by a list of Markdown link definitions for all the links in the answer."
REFERENCING == "I will answer below question by referencing the following packages from the project:"

PROMPT_TEMPLATE ==
    << INTRO, NL, NL, REFERENCING, NL, FILES_PLACEHOLDER, NL, NL,
       HISTORY_PLACEHOLDER, NL, "Question: ", QUESTION_PLACEHOLDER, NL, "Answer:" >>

\* What a replacement string stands for once its patterns are expanded: "$$"
\* is a dollar sign, "$&" the matched substring, and the two others the
\* parts of the string before and after the match.
RECURSIVE expandReplacement(_, _, _, _)
expandReplacement(replacement, before, matched, after) ==
    IF replacement = <<>> THEN <<>>
    ELSE (CASE replacement[1] = DOLLAR_DOLLAR -> <<"$">>
            [] replacement[1] = DOLLAR_MATCH -> <<matched>>
            [] replacement[1] = DOLLAR_BEFORE -> before
            [] replacement[1] = DOLLAR_AFTER -> after
            [] OTHER -> <<replacement[1]>>)
         \o expandReplacement(Tail(replacement), before, matched, after)

\* str.replace( pattern, replacement ) with a string pattern: the first
\* occurrence only, the replacement string expanded.
replaceFirst(str, pattern, replacement) ==
    LET i == FirstIn(str, {pattern}, 1)
    IN IF i = 0 THEN str
       ELSE LET before == Slice(str, 1, i - 1)
                after == Slice(str, i + 1, Len(str))
            IN before \o expandReplacement(replacement, before, pattern, after) \o after

\* mostSimilar.map( x => `Package: ${x.package}\nText: ${compressContent( x.content )}` ).join( '\n\n' )
RECURSIVE renderFiles(_)
renderFiles(mostSimilar) ==
    IF mostSimilar = <<>> THEN <<>>
    ELSE <<"Package: ", mostSimilar[1].package, NL, "Text: ">>
         \o compressContent(mostSimilar[1].content, TRUE)
         \o (IF Len(mostSimilar) > 1 THEN <<NL, NL>> ELSE <<>>)
         \o renderFiles(Tail(mostSimilar))

\* history ? `History:\n${history}\n` : ''
renderHistory(history) ==
    IF history # <<>> THEN <<"History:", NL>> \o history \o <<NL>> ELSE <<>>

\* assemblePrompt( question, mostSimilar, history )
assemblePrompt(question, mostSimilar, history) ==
    LET compressed == compressContent(history, FALSE)
        withFiles == replaceFirst(PROMPT_TEMPLATE, FILES_PLACEHOLDER, renderFiles(mostSimilar))
        withHistory == replaceFirst(withFiles, HISTORY_PLACEHOLDER, renderHistory(compressed))
    IN replaceFirst(withHistory, QUESTION_PLACEHOLDER, question)

\* ------------------------------------------------------------------ ranker

\* vectorSimilarity( x, y ): the dot product, summed over the indices of x.
RECURSIVE vectorSimilarity(_, _)
vectorSimilarity(x, y) ==
    IF x = <<>> THEN 0
    ELSE x[Len(x)] * y[Len(x)]
         + vectorSimilarity(Slice(x, 1, Len(x) - 1), Slice(y, 1, Len(x) - 1))

\* A comparator written the wrong way round: ascending order.
compareAscending(a, b) == a.similarity - b.similarity

\* ( a, b ) => b.similarity - a.similarity
compareSimilarity(a, b) == b.similarity - a.similarity

\* Array.prototype.sort is stable: an element goes after every element the
\* comparator does not place behind it.
RECURSIVE InsertStable(_, _)
InsertStable(sorted, e) ==
    IF sorted = <<>> THEN <<e>>
    ELSE IF compareSimilarity(sorted[1], e) <= 0
         THEN <<sorted[1]>> \o InsertStable(Tail(sorted), e)
         ELSE <<e>> \o sorted

RECURSIVE SortFrom(_, _)
SortFrom(sorted, rest) ==
    IF rest = <<>> THEN sorted
    ELSE SortFrom(InsertStable(sorted, rest[1]), Tail(rest))

\* similarities.sort( ( a, b ) => b.similarity - a.similarity )
sortSimilarities(similarities) == SortFrom(<<>>, similarities)

\* A filter that lets a score equal to the threshold through.
keepAtLeast(x, threshold) == x.similarity >= threshold

\* x => x.similarity > threshold
keepSimilarity(x, threshold) == x.similarity > threshold

\* Array.prototype.filter
RECURSIVE FilterSimilarities(_, _)
FilterSimilarities(similarities, threshold) ==
    IF similarities = <<>> THEN <<>>
    ELSE (IF keepSimilarity(similarities[1], threshold) THEN <<similarities[1]>> ELSE <<>>)
         \o FilterSimilarities(Tail(similarities), threshold)

\* A slice taken from the wrong end: .slice( -topN ).
TakeLast(s, topN) == Slice(s, (IF topN < Len(s) THEN Len(s) - topN ELSE 0) + 1, Len(s))

\* Array.prototype.slice( 0, topN ) for topN >= 0.
TakeFirst(s, topN) == Slice(s, 1, IF topN < Len(s) THEN topN ELSE Len(s))

\* The scored candidates of findMostSimilar, one per corpus record, in corpus order.
scoreAll(embedding, allEmbeddings) ==
    [i \in 1..Len(allEmbeddings) |->
        [embedding |-> allEmbeddings[i],
         similarity |-> vectorSimilarity(embedding, allEmbeddings[i].embedding)]]

\* findMostSimilar( embedding, allEmbeddings, topN, threshold )
findMostSimilar(embedding, allEmbeddings, topN, threshold) ==
    LET similarities == sortSimilarities(scoreAll(embedding, allEmbeddings))
        top == TakeFirst(FilterSimilarities(similarities, threshold), topN)
    IN [i \in 1..Len(top) |-> top[i].embedding]

\* A ranker that sorts the array it was given ( allEmbeddings.sort( ... ) on the
\* scored corpus ) instead of an array of its own.
corpusSortedInPlace(embedding, allEmbeddings) ==
    LET similarities == sortSimilarities(scoreAll(embedding, allEmbeddings))
    IN [i \in 1..Len(similarities) |-> similarities[i].embedding]

\* What findMostSimilar leaves in allEmbeddings: it reads allEmbeddings[ i ]
\* and pushes to, sorts, filters and slices the array similarities, its own.
corpusAfterFindMostSimilar(embedding, allEmbeddings) == allEmbeddings

\* ------------------------------------------------------------- the action

VARIABLES
    eventName,            \* context.eventName
    hasKey,               \* the OPENAI_API_KEY input is supplied
    hasToken,             \* the GITHUB_TOKEN input is supplied
    pc,                   \* where the process is
    question,             \* main: question
    embeddings,           \* main: embeddings (the loaded corpus)
    embedding,            \* main: embedding (of the question)
    mostSimilar,          \* main: mostSimilar
    conversationHistory,  \* main: conversationHistory
    prompt,               \* main: prompt
    answer,               \* main: answer
    err,                  \* main: the error caught
    issueComments,        \* the bodies posted to the issue, in order
    discussionComments,   \* the bodies posted to the discussion, in order
    pending,              \* discussion posts requested and not yet settled
    log,                  \* what core.debug / info / error have written
    failed,               \* the message given to core.setFailed
    exitCode,             \* process.exitCode
    unhandled,            \* errors that left main uncaught
    calls,                \* the external calls started, in order
    failedCalls           \* the external calls that failed

mainVars == <<eventName, hasKey, hasToken, pc, question, embeddings, embedding,
              mostSimilar, conversationHistory, prompt, answer, err, issueComments,
              discussionComments, pending, log, failed, exitCode, unhandled, calls,
              failedCalls>>

VARIABLES
    rkQuery, rkCorpus, rkTopN, rkThreshold,   \* the arguments of findMostSimilar
    rkResult,                                 \* what it returned
    rkDone                                    \* it has returned

rankVars == <<rkQuery, rkCorpus, rkTopN, rkThreshold, rkResult, rkDone>>

VARIABLES
    txIn,      \* the argument of the text function
    txOut,     \* the latest result
    txStage    \* which functions have been applied

textVars == <<txIn, txOut, txStage>>

VARIABLES
    ghTurns,   \* the argument of generateHistory
    ghOut,     \* what it returned
    ghDone     \* it has returned

histVars == <<ghTurns, ghOut, ghDone>>

VARIABLES
    apQuestion, apMostSimilar, apHistory,   \* the arguments of assemblePrompt
    apOut,                                  \* what it returned
    apDone                                  \* it has returned

promptVars == <<apQuestion, apMostSimilar, apHistory, apOut, apDone>>

vars == <<mainVars, rankVars, textVars, histVars, promptVars>>

NONE == "none"
UNDEFINED == "undefined"

\* An optional value: JavaScript undefined, or a value.
Undefined == [defined |-> FALSE, value |-> <<>>]
Defined(v) == [defined |-> TRUE, value |-> v]

EventNames == {"issues", "issue_comment", "discussion", "discussion_comment", "push"}
IsIssueEvent(ev) == ev \in {"issue_comment", "issues"}
IsDiscussionEvent(ev) == ev \in {"discussion_comment", "discussion"}
HasDestination(ev) == IsIssueEvent(ev) \/ IsDiscussionEvent(ev)

\* context.payload: the bodies an event of each kind carries.
ISSUE_BODY == "/ask issue body"
DISCUSSION_BODY == "/ask discussion body"
COMMENT_BODY == "/ask comment body"

\* embeddings.json: the corpus of the documented scenario, components in tenths.
Corpus ==
    << [package |-> "a", content |-> <<USAGE_OPEN, "Use A.", SECTION_CLOSE>>, embedding |-> <<10, 0>>],
       [package |-> "b", content |-> <<USAGE_OPEN, "Use B.", SECTION_CLOSE>>, embedding |-> <<0, 10>>] >>

\* What the embedding service may answer (tenths): one match (the first
\* record, or the second), two matches, none.
QueryEmbeddings == {<<9, 1>>, <<1, 9>>, <<7, 7>>, <<1, 1>>}

\* What the comment listing may answer.
CommentLists ==
    { <<>>,
      << [login |-> "alice", body |-> <<"Try X.", NL, NL, HEADING, NL, NL, "- blah">>] >>,
      << [login |-> "bob", body |-> <<COMMENT_BODY>>],
         [login |-> "bot", body |-> appendDisclaimer(<<"Use A.">>)] >> }

\* What the completion service may answer.
CompletionTexts == {<<"Use A.">>, <<"Unknown.">>}

ERR_INPUT_KEY == "Input required and not supplied: OPENAI_API_KEY"
ERR_INPUT_TOKEN == "Input required and not supplied: GITHUB_TOKEN"
ERR_READ == "readFile failed"
ERR_EMBEDDING == "createEmbedding failed"
ERR_LIST == "listing comments failed"
ERR_TYPE == "Cannot read properties of undefined (reading replace)"
ERR_COMPLETION == "createCompletion failed"
ERR_POST == "createComment failed"
ERR_GRAPHQL == "addDiscussionComment failed"

MSG_UNSUPPORTED == "Unsupported event name"
MSG_CREATED == "Successfully created comment."

Debug(m) == <<"debug", m>>
Info(m) == <<"info", m>>
Error(m) == <<"error", m>>

MainIdle ==
    /\ eventName = "push" /\ hasKey = TRUE /\ hasToken = TRUE
    /\ pc = "idle"
    /\ question = UNDEFINED /\ embeddings = <<>> /\ embedding = <<>>
    /\ mostSimilar = <<>> /\ conversationHistory = Undefined
    /\ prompt = <<>> /\ answer = <<>> /\ err = NONE
    /\ issueComments = <<>> /\ discussionComments = <<>> /\ pending = <<>>
    /\ log = <<>> /\ failed = NONE /\ exitCode = 0 /\ unhandled = <<>>
    /\ calls = <<>> /\ failedCalls = {}

RankIdle ==
    /\ rkQuery = <<>> /\ rkCorpus = <<>> /\ rkTopN = 0 /\ rkThreshold = 0
    /\ rkResult = <<>> /\ rkDone = FALSE

TextIdle == txIn = <<>> /\ txOut = <<>> /\ txStage = "idle"

HistIdle == ghTurns = <<>> /\ ghOut = <<>> /\ ghDone = FALSE

PromptIdle ==
    /\ apQuestion = <<>> /\ apMostSimilar = <<>> /\ apHistory = <<>>
    /\ apOut = <<>> /\ apDone = FALSE

\* The state of the process as node starts dist/index.js.
Init ==
    /\ eventName \in EventNames
    /\ hasKey \in BOOLEAN
    /\ hasToken \in BOOLEAN
    /\ pc = "load"
    /\ question = UNDEFINED /\ embeddings = <<>> /\ embedding = <<>>
    /\ mostSimilar = <<>> /\ conversationHistory = Undefined
    /\ prompt = <<>> /\ answer = <<>> /\ err = NONE
    /\ issueComments = <<>> /\ discussionComments = <<>> /\ pending = <<>>
    /\ log = <<>> /\ failed = NONE /\ exitCode = 0 /\ unhandled = <<>>
    /\ calls = <<>> /\ failedCalls = {}
    /\ RankIdle
    /\ TextIdle
    /\ HistIdle
    /\ PromptIdle

\* ------------------------------------------------------------ module load

\* An input read without { required: true }: never throws.
getInputOptional(present) == FALSE

\* getInput( name, { required: true } ) throws when the input is not supplied.
getInputThrows(present) == ~present

\* dist/index.js top level: read the two inputs, set up the clients, call main().
\* An exception here is uncaught: node exits with code 1 and main never runs.
LoadModule ==
    /\ pc = "load"
    /\ IF getInputThrows(hasKey)
       THEN /\ pc' = "crashed"
            /\ unhandled' = Append(unhandled, ERR_INPUT_KEY)
            /\ exitCode' = 1
       ELSE IF getInputThrows(hasToken)
       THEN /\ pc' = "crashed"
            /\ unhandled' = Append(unhandled, ERR_INPUT_TOKEN)
            /\ exitCode' = 1
       ELSE /\ pc' = "main"
            /\ UNCHANGED <<unhandled, exitCode>>
    /\ UNCHANGED <<eventName, hasKey, hasToken, question, embeddings, embedding,
                   mostSimilar, conversationHistory, prompt, answer, err,
                   issueComments, discussionComments, pending, log, failed, calls,
                   failedCalls, rankVars, textVars, histVars, promptVars>>

\* ------------------------------------------------------------------- main

\* extractQuestion(): the body the switch on context.eventName returns;
\* no case matches an unknown event and the function returns undefined.
extractQuestion(ev) ==
    CASE ev \in {"discussion_comment", "issue_comment"} -> COMMENT_BODY
      [] ev = "discussion" -> DISCUSSION_BODY
      [] ev = "issues" -> ISSUE_BODY
      [] OTHER -> UNDEFINED

extractQuestionLog(ev) ==
    CASE ev \in {"discussion_comment", "issue_comment"} ->
            <<Debug("Triggered by discussion comment or issue comment.")>>
      [] ev = "discussion" -> <<Debug("Triggered by discussion.")>>
      [] ev = "issues" -> <<Debug("Triggered by issue.")>>
      [] OTHER -> <<>>

\* const question = extractQuestion();
ExtractQuestion ==
    /\ pc = "main"
    /\ question' = extractQuestion(eventName)
    /\ log' = log \o extractQuestionLog(eventName)
    /\ pc' = "readFile"
    /\ UNCHANGED <<eventName, hasKey, hasToken, embeddings, embedding, mostSimilar,
                   conversationHistory, prompt, answer, err, issueComments,
                   discussionComments, pending, failed, exitCode, unhandled, calls,
                   failedCalls, rankVars, textVars, histVars, promptVars>>

\* await readFile( embeddings.json ); JSON.parse: before the try block, so a
\* failure rejects main() and nothing handles the rejection.
ReadCorpus ==
    /\ pc = "readFile"
    /\ calls' = Append(calls, <<"readFile", <<>>>>)
    /\ \E ok \in BOOLEAN :
          IF ok
          THEN /\ embeddings' = Corpus
               /\ pc' = "createEmbedding"
               /\ UNCHANGED <<unhandled, exitCode, failedCalls>>
          ELSE /\ unhandled' = Append(unhandled, ERR_READ)
               /\ failedCalls' = failedCalls \cup {Len(calls) + 1}
               /\ \E code \in {exitCode, 1} : exitCode' = code
               /\ pc' = "done"
               /\ UNCHANGED embeddings
    /\ UNCHANGED <<eventName, hasKey, hasToken, question, embedding, mostSimilar,
                   conversationHistory, prompt, answer, err, issueComments,
                   discussionComments, pending, log, failed, rankVars, textVars, histVars, promptVars>>

\* const embedding = await createEmbedding( question );
CreateEmbedding ==
    /\ pc = "createEmbedding"
    /\ calls' = Append(calls, <<"createEmbedding", <<>>>>)
    /\ \E ok \in BOOLEAN :
          IF ok
          THEN /\ \E v \in QueryEmbeddings : embedding' = v
               /\ pc' = "findMostSimilar"
               /\ UNCHANGED <<err, failedCalls>>
          ELSE /\ err' = ERR_EMBEDDING
               /\ failedCalls' = failedCalls \cup {Len(calls) + 1}
               /\ pc' = "catch"
               /\ UNCHANGED embedding
    /\ UNCHANGED <<eventName, hasKey, hasToken, question, embeddings, mostSimilar,
                   conversationHistory, prompt, answer, issueComments,
                   discussionComments, pending, log, failed, exitCode, unhandled,
                   rankVars, textVars, histVars, promptVars>>

\* const mostSimilar = await findMostSimilar( embedding, embeddings );
FindMostSimilar ==
    /\ pc = "findMostSimilar"
    /\ mostSimilar' = findMostSimilar(embedding, embeddings, DefaultTopN, DefaultThreshold)
    /\ embeddings' = corpusAfterFindMostSimilar(embedding, embeddings)
    /\ pc' = "history"
    /\ UNCHANGED <<eventName, hasKey, hasToken, question, embedding,
                   conversationHistory, prompt, answer, err, issueComments,
                   discussionComments, pending, log, failed, exitCode, unhandled,
                   calls, failedCalls, rankVars, textVars, histVars, promptVars>>

\* A history switch whose cases also list the opened events.
historyCallAlways(ev) ==
    CASE ev \in {"issue_comment", "issues"} -> "getIssueComments"
      [] ev \in {"discussion_comment", "discussion"} -> "getDiscussionComments"
      [] OTHER -> NONE

\* The call the history switch makes: none unless the event is a comment event.
historyCall(ev) ==
    CASE ev = "issue_comment" -> "getIssueComments"
      [] ev = "discussion_comment" -> "getDiscussionComments"
      [] OTHER -> NONE

\* switch ( context.eventName ) { ... conversationHistory = generateHistory( comments ) }
\* and info( 'Conversation history: ' + conversationHistory ).
FetchComments ==
    /\ pc = "history"
    /\ IF historyCall(eventName) = NONE
       THEN /\ log' = Append(log, Info("Conversation history"))
            /\ pc' = "assemble"
            /\ UNCHANGED <<conversationHistory, err, calls, failedCalls>>
       ELSE /\ calls' = Append(calls, <<historyCall(eventName), <<>>>>)
            /\ \E ok \in BOOLEAN :
                  IF ok
                  THEN /\ \E comments \in CommentLists :
                             conversationHistory' = Defined(generateHistory(comments))
                       /\ log' = Append(log, Info("Conversation history"))
                       /\ pc' = "assemble"
                       /\ UNCHANGED <<err, failedCalls>>
                  ELSE /\ err' = ERR_LIST
                       /\ failedCalls' = failedCalls \cup {Len(calls) + 1}
                       /\ pc' = "catch"
                       /\ UNCHANGED <<conversationHistory, log>>
    /\ UNCHANGED <<eventName, hasKey, hasToken, question, embeddings, embedding,
                   mostSimilar, prompt, answer, issueComments, discussionComments,
                   pending, failed, exitCode, unhandled, rankVars, textVars, histVars, promptVars>>

\* compressContent( text, removeCodeBlocks ) begins with text.replace( ... ):
\* a TypeError when text is undefined.
compressContentThrows(text) == ~text.defined

\* const prompt = assemblePrompt( question, mostSimilar, conversationHistory ),
\* whose first statement is history = compressContent( history, false ).
\* The question is one token of the prompt.
AssemblePrompt ==
    /\ pc = "assemble"
    /\ IF compressContentThrows(conversationHistory)
       THEN /\ err' = ERR_TYPE
            /\ pc' = "catch"
            /\ UNCHANGED <<prompt, log>>
       ELSE /\ prompt' = assemblePrompt(<<question>>, mostSimilar,
                                         conversationHistory.value)
            /\ log' = Append(log, Debug("Assembled prompt"))
            /\ pc' = "generateAnswer"
            /\ UNCHANGED err
    /\ UNCHANGED <<eventName, hasKey, hasToken, question, embeddings, embedding,
                   mostSimilar, conversationHistory, answer, issueComments,
                   discussionComments, pending, failed, exitCode, unhandled, calls,
                   failedCalls, rankVars, textVars, histVars, promptVars>>

\* const answer = await generateAnswer( prompt ): the completion text with the
\* disclaimer appended.
GenerateAnswer ==
    /\ pc = "generateAnswer"
    /\ calls' = Append(calls, <<"createCompletion", <<>>>>)
    /\ \E ok \in BOOLEAN :
          IF ok
          THEN /\ \E text \in CompletionTexts : answer' = appendDisclaimer(text)
               /\ pc' = "post"
               /\ UNCHANGED <<err, failedCalls>>
          ELSE /\ err' = ERR_COMPLETION
               /\ failedCalls' = failedCalls \cup {Len(calls) + 1}
               /\ pc' = "catch"
               /\ UNCHANGED answer
    /\ UNCHANGED <<eventName, hasKey, hasToken, question, embeddings, embedding,
                   mostSimilar, conversationHistory, prompt, issueComments,
                   discussionComments, pending, log, failed, exitCode, unhandled,
                   rankVars, textVars, histVars, promptVars>>

\* The branch the switch of the try block takes.
answerDestination(ev) ==
    CASE ev \in {"issue_comment", "issues"} -> "issue"
      [] ev \in {"discussion_comment", "discussion"} -> "discussion"
      [] OTHER -> NONE

\* A catch switch that forgot the discussion cases.
apologyDestinationIssueOnly(ev) ==
    CASE ev \in {"issue_comment", "issues"} -> "issue"
      [] OTHER -> NONE

\* A catch switch whose default case posts to the issue.
apologyDestinationDefaultIssue(ev) ==
    CASE ev \in {"discussion_comment", "discussion"} -> "discussion"
      [] OTHER -> "issue"

\* The branch the switch of the catch block takes.
apologyDestination(ev) ==
    CASE ev \in {"issue_comment", "issues"} -> "issue"
      [] ev \in {"discussion_comment", "discussion"} -> "discussion"
      [] OTHER -> NONE

\* The fallback placed in a finally block: it also runs after a post that succeeded.
afterAnswerPostedFinally == "catch"

\* break: control leaves the try block and main returns.
afterAnswerPosted == "done"

\* The switch that posts the answer. createComment is awaited, so its failure
\* is thrown inside the try block; the promise of addDiscussionComment is not
\* awaited, so main goes on while the request is in flight.
PostAnswer ==
    /\ pc = "post"
    /\ CASE answerDestination(eventName) = "issue" ->
              /\ calls' = Append(calls, <<"createComment", answer>>)
              /\ \E ok \in BOOLEAN :
                    IF ok
                    THEN /\ issueComments' = Append(issueComments, answer)
                         /\ log' = log \o <<Debug("Triggered by issue comment or issue."),
                                            Debug(MSG_CREATED)>>
                         /\ pc' = afterAnswerPosted
                         /\ UNCHANGED <<err, failedCalls>>
                    ELSE /\ err' = ERR_POST
                         /\ failedCalls' = failedCalls \cup {Len(calls) + 1}
                         /\ log' = Append(log, Debug("Triggered by issue comment or issue."))
                         /\ pc' = "catch"
                         /\ UNCHANGED issueComments
              /\ UNCHANGED pending
         [] answerDestination(eventName) = "discussion" ->
              /\ calls' = Append(calls, <<"addDiscussionComment", answer>>)
              /\ pending' = Append(pending, [id |-> Len(calls) + 1, body |-> answer])
              /\ log' = log \o <<Debug("Triggered by discussion comment or discussion."),
                                 Debug(MSG_CREATED)>>
              /\ pc' = afterAnswerPosted
              /\ UNCHANGED <<err, failedCalls, issueComments>>
         [] OTHER ->
              /\ log' = Append(log, Error(MSG_UNSUPPORTED))
              /\ pc' = "done"
              /\ UNCHANGED <<err, failedCalls, issueComments, pending, calls>>
    /\ UNCHANGED <<eventName, hasKey, hasToken, question, embeddings, embedding,
                   mostSimilar, conversationHistory, prompt, answer,
                   discussionComments, failed, exitCode, unhandled, rankVars,
                   textVars, histVars, promptVars>>

\* The catch block: the apology, then error( err ) and setFailed( err.message ).
\* A failure of the awaited createComment is thrown out of the catch block:
\* main() rejects, nothing handles the rejection, and the two last statements
\* are not reached.
Catch ==
    /\ pc = "catch"
    /\ CASE apologyDestination(eventName) = "issue" ->
              /\ calls' = Append(calls, <<"createComment", APOLOGY>>)
              /\ \E ok \in BOOLEAN :
                    IF ok
                    THEN /\ issueComments' = Append(issueComments, APOLOGY)
                         /\ log' = log \o <<Debug("Triggered by issue comment or issue."),
                                            Debug(MSG_CREATED), Error(err)>>
                         /\ failed' = err
                         /\ exitCode' = 1
                         /\ UNCHANGED <<unhandled, failedCalls>>
                    ELSE /\ log' = Append(log, Debug("Triggered by issue comment or issue."))
                         /\ unhandled' = Append(unhandled, ERR_POST)
                         /\ failedCalls' = failedCalls \cup {Len(calls) + 1}
                         /\ \E code \in {exitCode, 1} : exitCode' = code
                         /\ UNCHANGED <<issueComments, failed>>
              /\ UNCHANGED pending
         [] apologyDestination(eventName) = "discussion" ->
              /\ calls' = Append(calls, <<"addDiscussionComment", APOLOGY>>)
              /\ pending' = Append(pending, [id |-> Len(calls) + 1, body |-> APOLOGY])
              /\ log' = log \o <<Debug("Triggered by discussion comment or discussion."),
                                 Debug(MSG_CREATED), Error(err)>>
              /\ failed' = err
              /\ exitCode' = 1
              /\ UNCHANGED <<issueComments, unhandled, failedCalls>>
         [] OTHER ->
              /\ log' = log \o <<Error(MSG_UNSUPPORTED), Error(err)>>
              /\ failed' = err
              /\ exitCode' = 1
              /\ UNCHANGED <<issueComments, pending, unhandled, failedCalls, calls>>
    /\ pc' = "done"
    /\ UNCHANGED <<eventName, hasKey, hasToken, question, embeddings, embedding,
                   mostSimilar, conversationHistory, prompt, answer, err,
                   discussionComments, rankVars, textVars, histVars, promptVars>>

\* addDiscussionComment: await graphqlWithAuth( query, variables ) settles.
\* Its caller did not await it and has run to the end of main by then; a
\* rejection is handled by nobody.
SettleDiscussionPost ==
    /\ pc = "done"
    /\ pending # <<>>
    /\ pending' = Tail(pending)
    /\ \E ok \in BOOLEAN :
          IF ok
          THEN /\ discussionComments' = Append(discussionComments, pending[1].body)
               /\ UNCHANGED <<unhandled, failedCalls, exitCode>>
          ELSE /\ unhandled' = Append(unhandled, ERR_GRAPHQL)
               /\ failedCalls' = failedCalls \cup {pending[1].id}
               /\ \E code \in {exitCode, 1} : exitCode' = code
               /\ UNCHANGED discussionComments
    /\ UNCHANGED <<eventName, hasKey, hasToken, pc, question, embeddings, embedding,
                   mostSimilar, conversationHistory, prompt, answer, err,
                   issueComments, log, failed, calls, rankVars, textVars, histVars, promptVars>>

Next ==
    \/ LoadModule
    \/ ExtractQuestion
    \/ ReadCorpus
    \/ CreateEmbedding
    \/ FindMostSimilar
    \/ FetchComments
    \/ AssemblePrompt
    \/ GenerateAnswer
    \/ PostAnswer
    \/ Catch
    \/ SettleDiscussionPost

Spec == Init /\ [][Next]_vars

\* The process has nothing left to do: main has returned (or never started)
\* and no request is in flight.
RunEnded == pc \in {"done", "crashed"} /\ pending = <<>>

\* --------------------------------------------- the ranker on drawn inputs

RankCoords == {-1, 0, 1}
RankVectors == {<<a, b>> : a \in RankCoords, b \in RankCoords}
RankQueries == {<<1, 0>>, <<1, 1>>}
RankThresholds == {0, 1}

\* A corpus of n records; a record is labelled with its place in the corpus.
RankCorpora ==
    UNION { { [i \in 1..n |-> [package |-> i, content |-> <<>>, embedding |-> f[i]]]
              : f \in [1..n -> RankVectors] } : n \in 0..MaxCorpus }

InitRank ==
    /\ MainIdle
    /\ TextIdle
    /\ HistIdle
    /\ PromptIdle
    /\ rkQuery \in RankQueries
    /\ rkCorpus \in RankCorpora
    /\ rkTopN \in 0..MaxTopN
    /\ rkThreshold \in RankThresholds
    /\ rkResult = <<>>
    /\ rkDone = FALSE

\* A call of findMostSimilar( rkQuery, rkCorpus, rkTopN, rkThreshold ).
RankApply ==
    /\ ~rkDone
    /\ rkResult' = findMostSimilar(rkQuery, rkCorpus, rkTopN, rkThreshold)
    /\ rkDone' = TRUE
    /\ UNCHANGED <<rkQuery, rkCorpus, rkTopN, rkThreshold, mainVars, textVars, histVars, promptVars>>

NextRank == RankApply

SpecRank == InitRank /\ [][NextRank]_vars

\* The score of a record against the query of the call.
RankScore(r) == vectorSimilarity(rkQuery, r.embedding)

\* ------------------------------------- the text functions on drawn inputs

TextAlphabet == {"Try X.", NL, HEADING}

InitText ==
    /\ MainIdle
    /\ RankIdle
    /\ HistIdle
    /\ PromptIdle
    /\ txIn \in SeqsUpTo(TextAlphabet, MaxLen)
    /\ txOut = txIn
    /\ txStage = "input"

\* txOut = appendDisclaimer( txIn )
ApplyAppendDisclaimer ==
    /\ txStage = "input"
    /\ txOut' = appendDisclaimer(txOut)
    /\ txStage' = "appended"
    /\ UNCHANGED <<txIn, mainVars, rankVars, histVars, promptVars>>

\* txOut = stripDisclaimer( txOut ), of the input or of appendDisclaimer( input ).
ApplyStripDisclaimer ==
    /\ txStage \in {"input", "appended"}
    /\ txOut' = stripDisclaimer(txOut)
    /\ txStage' = IF txStage = "input" THEN "stripped" ELSE "roundtrip"
    /\ UNCHANGED <<txIn, mainVars, rankVars, histVars, promptVars>>

\* txOut = txOut.replace( /\n{3,}/g, '\n\n' ), on the input and once more on
\* the result.
ApplyCollapseNewlines ==
    /\ txStage \in {"input", "collapsed"}
    /\ txOut' = collapseNewlines(txOut)
    /\ txStage' = IF txStage = "input" THEN "collapsed" ELSE "collapsed twice"
    /\ UNCHANGED <<txIn, mainVars, rankVars, histVars, promptVars>>

NextText ==
    \/ ApplyAppendDisclaimer
    \/ ApplyStripDisclaimer
    \/ ApplyCollapseNewlines

SpecText == InitText /\ [][NextText]_vars

Contains(s, tok) == \E i \in 1..Len(s) : s[i] = tok

\* ----------------------------------------- generateHistory on drawn inputs

HistoryLogins == {"alice", "stdlib-bot"}
HistoryBodies ==
    { <<>>,
      <<"Try X.">>,
      <<"Try X.", NL, NL, HEADING, NL, NL, "- blah">>,
      <<HEADING, "kept", HEADING, "dropped">>,
      <<"Why?", NL, HEADING>> }
HistoryTurns == {[login |-> l, body |-> b] : l \in HistoryLogins, b \in HistoryBodies}

InitHistory ==
    /\ MainIdle
    /\ RankIdle
    /\ TextIdle
    /\ PromptIdle
    /\ ghTurns \in SeqsUpTo(HistoryTurns, MaxTurns)
    /\ ghOut = <<>>
    /\ ghDone = FALSE

\* A call of generateHistory( ghTurns ).
HistoryApply ==
    /\ ~ghDone
    /\ ghOut' = generateHistory(ghTurns)
    /\ ghDone' = TRUE
    /\ UNCHANGED <<ghTurns, mainVars, rankVars, textVars, promptVars>>

NextHistory == HistoryApply

SpecHistory == InitHistory /\ [][NextHistory]_vars

\* ------------------------------------------- specification: assemblePrompt

\* Questions: plain, with each replacement pattern, and with a placeholder.
PromptQuestions ==
    { <<"How to sum?">>,
      <<"What does ", DOLLAR_MATCH, " mean?">>,
      <<"Is it ", DOLLAR_DOLLAR, "5?">>,
      <<"Why ", DOLLAR_BEFORE, "?">>,
      <<"Why ", DOLLAR_AFTER, "?">>,
      <<"What is ", QUESTION_PLACEHOLDER, "?">> }

\* Context documents: a README with a usage section, one whose usage section
\* quotes the history placeholder, one without any section, one that
\* documents a replacement pattern.
PromptDocs ==
    { [package |-> "a",
       content |-> <<"# a", NL, USAGE_OPEN, "Use A.", NL, FENCE, "a()", FENCE, SECTION_CLOSE, "notes">>,
       embedding |-> <<10, 0>>],
      [package |-> "t",
       content |-> <<USAGE_OPEN, "Write ", HISTORY_PLACEHOLDER, " here.", SECTION_CLOSE>>,
       embedding |-> <<0, 10>>],
      [package |-> "c",
       content |-> <<"Use C.", NL, NL, NL, "More.">>,
       embedding |-> <<7, 7>>],
      [package |-> "r",
       content |-> <<USAGE_OPEN, "In the replacement, ", DOLLAR_MATCH, " is the match.",
                     SECTION_CLOSE>>,
       embedding |-> <<3, 9>>] }

\* Histories, as generateHistory builds them.
PromptHistories ==
    { <<>>,
      generateHistory(<< [login |-> "alice", body |-> <<"Try X.">>],
                         [login |-> "stdlib-bot", body |-> appendDisclaimer(<<"Use A.">>)] >>),
      generateHistory(<< [login |-> "alice", body |-> <<"What is ", QUESTION_PLACEHOLDER, "?">>] >>),
      generateHistory(<< [login |-> "alice", body |-> <<NL>>] >>),
      generateHistory(<< [login |-> "alice",
                          body |-> <<"My README has ", USAGE_OPEN, "Use A.", SECTION_CLOSE,
                                     " and ", FENCE, "a()", FENCE, ". Why?">>],
                         [login |-> "stdlib-bot", body |-> appendDisclaimer(<<"Unknown.">>)] >>) }

InitPrompt ==
    /\ MainIdle /\ RankIdle /\ TextIdle /\ HistIdle
    /\ apQuestion \in PromptQuestions
    /\ apMostSimilar \in SeqsUpTo(PromptDocs, MaxTopN - 1)
    /\ apHistory \in PromptHistories
    /\ apOut = <<>> /\ apDone = FALSE

PromptApply ==
    /\ ~apDone
    /\ apOut' = assemblePrompt(apQuestion, apMostSimilar, apHistory)
    /\ apDone' = TRUE
    /\ UNCHANGED <<apQuestion, apMostSimilar, apHistory, mainVars, rankVars, textVars,
                   histVars>>

NextPrompt == PromptApply

SpecPrompt == InitPrompt /\ [][NextPrompt]_vars

\* ------------------------------------------ specification: compressContent

SanitizerAlphabet ==
    {USAGE_OPEN, SECTION_CLOSE, FENCE, NL, "Use A.", SECTION_HEAD, SECTION_ATTR}

\* Longer texts: a README with a license header, an introduction, two usage
\* sections, a code block, a link definition and a comment; a text without
\* sections; texts with tags in halves, spaces and tabs.
SanitizerSamples ==
    { <<LICENSE_OPEN, "Apache-2.0", LICENSE_CLOSE, "# a", CRLF, SECTION_OPEN, "About a.",
        SECTION_CLOSE, NL, USAGE_OPEN, NL, NL, "Use A.", NL, NL, NL, FENCE, "a()", FENCE,
        NL, SECTION_CLOSE, NL, USAGE_OPEN, "More.", SECTION_CLOSE, NL,
        LINK_LABEL, "https://a", NL>>,
      <<"Use C.", NL, NL, NL, NL, COMMENT_OPEN, "lint", COMMENT_CLOSE, "More.", SPACE, SPACE,
        TAB, TAB, "End.", NL>>,
      <<"Intro", NL, SECTION_HEAD, SPACE, SECTION_ATTR, "About.", SECTION_CLOSE>>,
      <<SECTION_HEAD, SPACE, SPACE, SECTION_ATTR, "About.", SECTION_CLOSE>> }

InitSanitize ==
    /\ MainIdle /\ RankIdle /\ HistIdle /\ PromptIdle
    /\ txIn \in SeqsUpTo(SanitizerAlphabet, MaxLen) \cup SanitizerSamples
    /\ txOut = txIn
    /\ txStage = "text"

\* txOut = compressContent( txIn ): the call made for a context document.
SanitizeDocument ==
    /\ txStage = "text"
    /\ txOut' = compressContent(txIn, TRUE)
    /\ txStage' = "document"
    /\ UNCHANGED <<txIn, mainVars, rankVars, histVars, promptVars>>

\* txOut = compressContent( txIn, false ): the call made for the history.
SanitizeHistory ==
    /\ txStage = "text"
    /\ txOut' = compressContent(txIn, FALSE)
    /\ txStage' = "history"
    /\ UNCHANGED <<txIn, mainVars, rankVars, histVars, promptVars>>

NextSanitize ==
    \/ SanitizeDocument
    \/ SanitizeHistory

SpecSanitize == InitSanitize /\ [][NextSanitize]_vars

\* ------------------------------------------------------------- properties

IsAnswer(body) == \E text \in CompletionTexts : body = appendDisclaimer(text)
AnswerPosted ==
    \/ \E i \in 1..Len(issueComments) : IsAnswer(issueComments[i])
    \/ \E i \in 1..Len(discussionComments) : IsAnswer(discussionComments[i])
ApologyPosted == Contains(issueComments, APOLOGY) \/ Contains(discussionComments, APOLOGY)

\* The comments on the destination of the event.
PostedTo(ev) ==
    IF IsIssueEvent(ev) THEN issueComments
    ELSE IF IsDiscussionEvent(ev) THEN discussionComments
    ELSE <<>>

CallStarted(name) == \E i \in 1..Len(calls) : calls[i][1] = name

\* The pipeline (the try block of main) was entered: configuration present,
\* corpus read.
PipelineStarted == CallStarted("createEmbedding")

\* The calls that post a comment to the destination of the event.
PostCallName(ev) == IF IsIssueEvent(ev) THEN "createComment" ELSE "addDiscussionComment"
PostCalls(ev) == {i \in 1..Len(calls) : calls[i][1] = PostCallName(ev)}
ApologyAttempted(ev) == \E i \in PostCalls(ev) : calls[i][2] = APOLOGY
LastPostFailed(ev) ==
    \E i \in PostCalls(ev) : i \in failedCalls /\ \A j \in PostCalls(ev) : j <= i

\* C1: in no invocation, whatever the event and whichever external calls
\* succeed or fail, are both the real answer and the apology posted.
C1_NeverAnswerAndApology == ~(AnswerPosted /\ ApologyPosted)

\* An answer post was attempted and failed, and the apology was then posted.
C1_Witness ==
    /\ \E i \in 1..Len(calls) : i \in failedCalls /\ IsAnswer(calls[i][2])
    /\ ApologyPosted

C3_OpenedEventAnswered ==
    (pc = "done" /\ RunEnded /\ eventName \in {"issues", "discussion"}
     /\ failedCalls = {})
        => /\ \E i \in 1..Len(PostedTo(eventName)) : IsAnswer(PostedTo(eventName)[i])
           /\ ~ApologyPosted
           /\ failed = NONE
           /\ exitCode = 0

\* C4: after a pipeline failure caught in a run with a destination, the
\* apology post to that destination has been attempted and, whether or not
\* it succeeded, the original error is logged and its message is the failure
\* status of the run.
C4_FailureAlwaysRecorded ==
    (pc = "done" /\ RunEnded /\ HasDestination(eventName) /\ err # NONE)
        => /\ ApologyAttempted(eventName)
           /\ Contains(log, Error(err))
           /\ failed = err
           /\ exitCode = 1

\* C5: for an unknown event with a failing external fetch, no comment is
\* posted to any destination, the error is logged and the run is marked failed.
C5_UnknownEventFetchFailure ==
    (pc = "done" /\ ~HasDestination(eventName) /\ PipelineStarted /\ failedCalls # {})
        => /\ issueComments = <<>> /\ discussionComments = <<>> /\ pending = <<>>
           /\ ~CallStarted("createComment") /\ ~CallStarted("addDiscussionComment")
           /\ err # NONE
           /\ Contains(log, Error(err))
           /\ failed = err
           /\ exitCode = 1

\* The embedding request of a run on an unknown event failed and the run ended.
C5_Witness ==
    /\ pc = "done" /\ eventName = "push"
    /\ err = ERR_EMBEDDING /\ failed = ERR_EMBEDDING

\* C6: for an unknown event with every external call succeeding, the event is
\* logged as unsupported, no comment is posted, no answer is produced and the
\* run is not marked failed.
C6_UnknownEventNotFailed ==
    (pc = "done" /\ RunEnded /\ ~HasDestination(eventName) /\ failedCalls = {})
        => /\ Contains(log, Error(MSG_UNSUPPORTED))
           /\ issueComments = <<>> /\ discussionComments = <<>>
           /\ answer = <<>>
           /\ failed = NONE
           /\ exitCode = 0

\* C7: with OPENAI_API_KEY or GITHUB_TOKEN absent the process fails before
\* main starts: no corpus read, no embedding, completion, listing or post.
C7_MissingInputAborts ==
    (~hasKey \/ ~hasToken)
        => /\ pc \in {"load", "crashed"}
           /\ calls = <<>>
           /\ issueComments = <<>> /\ discussionComments = <<>> /\ pending = <<>>
           /\ (pc = "crashed" => exitCode = 1 /\ unhandled # <<>>)

\* The key is supplied, the token is not, and the process has stopped.
C7_Witness == pc = "crashed" /\ hasKey /\ ~hasToken

\* C8: findMostSimilar returns at most topN candidates, each with a score
\* strictly greater than the threshold.
C8_AtMostTopNAboveThreshold ==
    rkDone => /\ Len(rkResult) <= rkTopN
              /\ \A i \in 1..Len(rkResult) : RankScore(rkResult[i]) > rkThreshold

\* A call that cut the list at topN and left out a record scoring exactly the threshold.
C8_Witness ==
    /\ rkDone /\ rkTopN > 0 /\ Len(rkResult) = rkTopN
    /\ \E i \in 1..Len(rkCorpus) : RankScore(rkCorpus[i]) = rkThreshold
    /\ Cardinality({i \in 1..Len(rkCorpus) : RankScore(rkCorpus[i]) > rkThreshold}) > rkTopN

\* C9: the candidates returned are in non-increasing score order, and two of
\* equal score are in their corpus order (a record is labelled with its place).
C9_DescendingAndStable ==
    rkDone => \A i, j \in 1..Len(rkResult) :
                 i < j => /\ RankScore(rkResult[i]) >= RankScore(rkResult[j])
                          /\ (RankScore(rkResult[i]) = RankScore(rkResult[j])
                                 => rkResult[i].package < rkResult[j].package)

\* A result whose order differs from the corpus order, with a tie in it.
C9_Witness ==
    /\ rkDone /\ Len(rkResult) = 3
    /\ RankScore(rkResult[1]) > RankScore(rkResult[2])
    /\ RankScore(rkResult[2]) = RankScore(rkResult[3])
    /\ rkResult[1].package > rkResult[2].package

\* C10 as stated: stripDisclaimer( appendDisclaimer( x ) ) is x when x does not
\* contain the disclaimer heading.
C10_RoundTripExact ==
    (txStage = "roundtrip" /\ ~Contains(txIn, HEADING)) => txOut = txIn

\* C10 amended: stripDisclaimer( appendDisclaimer( x ) ) is x followed by the
\* two line breaks that separate the disclaimer from the answer.
C10_RoundTripKeepsSeparator ==
    (txStage = "roundtrip" /\ ~Contains(txIn, HEADING)) => txOut = txIn \o <<NL, NL>>

\* The round trip of a non-empty text without the heading.
C10_Witness ==
    /\ txStage = "roundtrip" /\ ~Contains(txIn, HEADING)
    /\ Len(txIn) >= 2 /\ txIn[Len(txIn)] = NL

\* The length of the entry of turn i, and the place where it starts.
HistoryEntryLen(i) == 3 + Len(stripDisclaimer(ghTurns[i].body))
RECURSIVE HistoryEntryStart(_)
HistoryEntryStart(i) ==
    IF i = 1 THEN 1 ELSE HistoryEntryStart(i - 1) + HistoryEntryLen(i - 1)

\* C11: generateHistory renders one entry per turn, in the order of the
\* turns, each the login, ": ", the body with its disclaimer stripped and one
\* line break; an empty list gives the empty string.
C11_OneEntryPerTurnInOrder ==
    ghDone =>
        /\ (ghTurns = <<>> => ghOut = <<>>)
        /\ Len(ghOut) = (IF ghTurns = <<>> THEN 0
                         ELSE HistoryEntryStart(Len(ghTurns)) + HistoryEntryLen(Len(ghTurns)) - 1)
        /\ Cardinality({k \in 1..Len(ghOut) : ghOut[k] = ": "}) = Len(ghTurns)
        /\ \A i \in 1..Len(ghTurns) :
              LET a == HistoryEntryStart(i)
                  n == HistoryEntryLen(i)
              IN /\ ghOut[a] = ghTurns[i].login
                 /\ ghOut[a + 1] = ": "
                 /\ Slice(ghOut, a + 2, a + n - 2) = stripDisclaimer(ghTurns[i].body)
                 /\ ghOut[a + n - 1] = NL

\* A history of two turns by different authors, the first with a disclaimer.
C11_Witness ==
    /\ ghDone /\ Len(ghTurns) = 2
    /\ ghTurns[1].login # ghTurns[2].login
    /\ Contains(ghTurns[1].body, HEADING)
    /\ stripDisclaimer(ghTurns[1].body) # ghTurns[1].body
    /\ ghOut[1] = ghTurns[1].login

\* ---------------------------------------------------------- assemblePrompt

\* sub occurs in s as a run of consecutive tokens.
ContainsSeq(s, sub) ==
    \E i \in 0..(Len(s) - Len(sub)) : Slice(s, i + 1, i + Len(sub)) = sub

PlaceholderTokens == {FILES_PLACEHOLDER, HISTORY_PLACEHOLDER, QUESTION_PLACEHOLDER}
DollarPatterns == {DOLLAR_DOLLAR, DOLLAR_MATCH, DOLLAR_BEFORE, DOLLAR_AFTER}

HasToken(s, toks) == \E i \in 1..Len(s) : s[i] \in toks

\* The prompt the template describes when each placeholder is taken by the
\* given text and nothing else is touched.
LiteralPrompt(q, files, history) ==
    <<INTRO, NL, NL, REFERENCING, NL>> \o files \o <<NL, NL>> \o history
    \o <<NL, "Question: ">> \o q \o <<NL, "Answer:">>

apFiles == renderFiles(apMostSimilar)
apRenderedHistory == renderHistory(compressContent(apHistory, FALSE))

\* C12: with no context document and an empty history, assemblePrompt gives
\* a prompt that contains the question text as it was asked, no "History:"
\* label and no "Package:" line.
C12_EmptyContextPrompt ==
    (apDone /\ apMostSimilar = <<>> /\ apHistory = <<>>) =>
        /\ apOut # <<>>
        /\ ContainsSeq(apOut, apQuestion)
        /\ ~Contains(apOut, "History:")
        /\ ~Contains(apOut, "Package: ")

\* C13: a placeholder token in the sanitized content of a context document
\* or in the history is left as it is, and the placeholders of the template
\* are the ones replaced (the question holds no replacement pattern).
C13_PlaceholdersNotResubstituted ==
    (/\ apDone
     /\ ~HasToken(apQuestion, DollarPatterns)
     /\ HasToken(apFiles \o apRenderedHistory, PlaceholderTokens)) =>
        apOut = LiteralPrompt(apQuestion, apFiles, apRenderedHistory)

\* C14: whatever the question contains, the prompt holds it unmodified where
\* the question placeholder was (the context holds no placeholder token).
C14_QuestionRaw ==
    (apDone /\ ~HasToken(apFiles \o apRenderedHistory, PlaceholderTokens)) =>
        /\ Len(apOut) >= Len(apQuestion) + 2
        /\ Slice(apOut, Len(apOut) - 1 - Len(apQuestion), Len(apOut) - 2) = apQuestion
        /\ apOut = LiteralPrompt(apQuestion, apFiles, apRenderedHistory)

\* ------------------------------------------------------------ posted bodies

\* The bodies handed to createComment and addDiscussionComment, and the
\* bodies of the comments that exist on the issue and on the discussion.
PostNames == {"createComment", "addDiscussionComment"}
PostedBodies ==
    {calls[i][2] : i \in {k \in 1..Len(calls) : calls[k][1] \in PostNames}}
    \cup {issueComments[i] : i \in 1..Len(issueComments)}
    \cup {discussionComments[i] : i \in 1..Len(discussionComments)}
    \cup {pending[i].body : i \in 1..Len(pending)}

\* C15: every comment body of a run is a completion text followed by the
\* disclaimer block once, or the apology.
C15_AnswerWithDisclaimerOrApology ==
    \A body \in PostedBodies :
        \/ body = APOLOGY
        \/ \E text \in CompletionTexts : body = text \o DISCLAIMER

\* The answer to a comment is on the issue.
C15_Witness ==
    /\ eventName = "issue_comment"
    /\ \E text \in CompletionTexts : Contains(issueComments, text \o DISCLAIMER)

\* ------------------------------------------------------------- suspension

\* A comment post has been started and has not completed.
PostInFlight == pending # <<>>

\* C16: no step of a run is taken while an external call is in flight: the
\* success message is logged, the end of main is reached and the failure
\* status is recorded only once the comment post has completed.
C16_NothingPastAnUnfinishedPost ==
    PostInFlight =>
        /\ ~Contains(log, Debug(MSG_CREATED))
        /\ pc # "done"
        /\ failed = NONE

\* ------------------------------------------------------------------ corpus

\* C17: once read, the corpus holds the records of embeddings.json, in the
\* order of the file, with their package, content and embedding, through
\* ranking and prompt assembly and to the end of the run.
C17_CorpusNeverMutated == embeddings # <<>> => embeddings = Corpus

\* The second record of the corpus was ranked first and rendered into a
\* prompt, and the corpus is as it was read.
C17_Witness ==
    /\ prompt # <<>>
    /\ Len(mostSimilar) = 1 /\ mostSimilar[1] = Corpus[2]
    /\ ContainsSeq(prompt, <<"Package: ", Corpus[2].package>>)
    /\ embeddings = Corpus

\* ------------------------------------------------------ collapsing newlines

\* s holds n consecutive tokens tok.
HasRun(s, tok, n) == \E i \in 1..(Len(s) - n + 1) : \A k \in 0..(n - 1) : s[i + k] = tok

\* C18: the result of collapsing line breaks holds no run of three or more,
\* and collapsing it again gives the result of collapsing once.
C18_CollapseIdempotent ==
    /\ txStage \in {"collapsed", "collapsed twice"} => ~HasRun(txOut, NL, 3)
    /\ txStage = "collapsed twice" => txOut = collapseNewlines(txIn)

\* A text with a run of three or more line breaks has been collapsed twice.
C18_Witness ==
    /\ txStage = "collapsed twice"
    /\ HasRun(txIn, NL, 3)
    /\ txOut # txIn
    /\ HasRun(txOut, NL, 2)

\* ---------------------------------------------------------- error handling

\* An awaited call of main outside the catch block has failed: the corpus
\* read, the embedding, the listing, the completion, the answer post.
MainCallFailed ==
    \E i \in failedCalls :
        /\ calls[i][1] # "addDiscussionComment"
        /\ calls[i][2] # APOLOGY

\* C19: an error raised in main, the failure to read the corpus included, is
\* caught by the catch block of main, which attempts the apology; it is not
\* left to reject the promise of main (a post that fails in the catch block
\* or after main is another matter).
C19_EveryErrorCaught ==
    (pc = "done" /\ MainCallFailed /\ HasDestination(eventName)) =>
        /\ err # NONE
        /\ ApologyAttempted(eventName)
        /\ \A i \in 1..Len(unhandled) : unhandled[i] \in {ERR_POST, ERR_GRAPHQL}

\* ------------------------------------------------------- order of the calls

\* The calls of the pipeline: every call but the corpus read and the post of
\* the apology.
PipelineIndices == {i \in 1..Len(calls) : calls[i][1] # "readFile" /\ calls[i][2] # APOLOGY}

\* The i-th call of the pipeline, counted in the order the calls were started.
PipelineCall(i) ==
    calls[CHOOSE k \in PipelineIndices :
              Cardinality({j \in PipelineIndices : j <= k}) = i]

\* The external calls of the pipeline for an event, in the prescribed order.
PrescribedCalls(ev) ==
    <<"createEmbedding">>
    \o (IF ev = "issue_comment" THEN <<"getIssueComments">>
        ELSE IF ev = "discussion_comment" THEN <<"getDiscussionComments">>
        ELSE <<>>)
    \o <<"createCompletion">>
    \o (IF IsIssueEvent(ev) THEN <<"createComment">>
        ELSE IF IsDiscussionEvent(ev) THEN <<"addDiscussionComment">>
        ELSE <<>>)

\* C20: the external calls of a run are started in the order embedding,
\* listing (comment events only), completion, answer post, each after the
\* calls before it have succeeded; an answer is posted only after a
\* completion that succeeded; a failed call is followed by nothing but the
\* post of the apology.
C20_CallsInOrder ==
    /\ Cardinality(PipelineIndices) <= Len(PrescribedCalls(eventName))
    /\ \A i \in 1..Cardinality(PipelineIndices) :
          PipelineCall(i)[1] = PrescribedCalls(eventName)[i]
    /\ \A i \in PipelineIndices : \A j \in PipelineIndices :
          i < j => i \notin failedCalls
    /\ \A i \in 1..Len(calls) :
          (calls[i][1] \in PostNames /\ calls[i][2] # APOLOGY) =>
              \E k \in 1..(i - 1) : calls[k][1] = "createCompletion" /\ k \notin failedCalls
    /\ \A i \in failedCalls : \A j \in 1..Len(calls) :
          i < j => (calls[j][1] \in PostNames /\ calls[j][2] = APOLOGY)

\* A run for a comment on an issue made the four calls, and the last one,
\* the post of the answer, failed and was followed by the apology.
C20_Witness ==
    /\ eventName = "issue_comment"
    /\ Cardinality(PipelineIndices) = 4
    /\ \E i \in failedCalls : calls[i][1] = "createComment" /\ calls[i][2] # APOLOGY
    /\ ApologyAttempted(eventName)

\* ------------------------------------------------------- the top candidates

\* The places in the corpus of the candidates scoring above the threshold,
\* and the places of the records returned (a record is labelled with its place).
RankAbove == {i \in 1..Len(rkCorpus) : RankScore(rkCorpus[i]) > rkThreshold}
RankReturned == {rkResult[k].package : k \in 1..Len(rkResult)}

\* C21: findMostSimilar returns the first min( topN, m ) of the m candidates
\* above the threshold, taken in descending score order with ties in corpus
\* order: each returned record is such a candidate, returned once; every
\* candidate left out comes after every returned one in that order; with no
\* candidate the result is empty.
C21_FirstOfTheRankedCandidates ==
    rkDone =>
        /\ Len(rkResult) = (IF rkTopN < Cardinality(RankAbove) THEN rkTopN
                            ELSE Cardinality(RankAbove))
        /\ RankReturned \subseteq RankAbove
        /\ Cardinality(RankReturned) = Len(rkResult)
        /\ \A k \in 1..Len(rkResult) : rkResult[k] = rkCorpus[rkResult[k].package]
        /\ \A i \in RankAbove \ RankReturned : \A k \in 1..Len(rkResult) :
              \/ RankScore(rkResult[k]) > RankScore(rkCorpus[i])
              \/ /\ RankScore(rkResult[k]) = RankScore(rkCorpus[i])
                 /\ rkResult[k].package < i
        /\ \A k \in 1..(Len(rkResult) - 1) :
              \/ RankScore(rkResult[k]) > RankScore(rkResult[k + 1])
              \/ /\ RankScore(rkResult[k]) = RankScore(rkResult[k + 1])
                 /\ rkResult[k].package < rkResult[k + 1].package
        /\ (RankAbove = {} => rkResult = <<>>)

\* Three candidates for one place: the one returned is the last record of
\* the corpus, and the two left out score less.
C21_Witness ==
    /\ rkDone /\ rkTopN = 1 /\ Len(rkResult) = 1
    /\ Cardinality(RankAbove) = 3
    /\ rkResult[1].package = 3

\* ------------------------------------------------------------ usage region

\* The places of the first usage tag of the text and of the first closing
\* tag after it (0 when there is none).
UsageOpenAt == FirstIn(txIn, {USAGE_OPEN}, 1)
UsageCloseAt == IF UsageOpenAt = 0 THEN 0 ELSE FirstIn(txIn, {SECTION_CLOSE}, UsageOpenAt + 1)
HasUsageRegion == UsageOpenAt # 0 /\ UsageCloseAt # 0
UsageInterior == Slice(txIn, UsageOpenAt + 1, UsageCloseAt - 1)

\* C22: the result for a text with a usage region is the result for the
\* interior of the region alone (first usage tag to the first closing tag
\* after it): what stands before and after contributes nothing.
C22_OnlyTheUsageInterior ==
    (txStage \in {"document", "history"} /\ HasUsageRegion) =>
        /\ txOut = compressContent(UsageInterior, txStage = "document")
        /\ \A k \in 1..Len(txOut) : Contains(UsageInterior, txOut[k]) \/ txOut[k] = SPACE

\* A document with text before the region, and a second region after it
\* whose words are not in the result.
C22_Witness ==
    /\ txStage = "document" /\ HasUsageRegion
    /\ UsageOpenAt > 1
    /\ FirstIn(txIn, {USAGE_OPEN}, UsageCloseAt) # 0
    /\ Contains(txIn, "More.") /\ ~Contains(txOut, "More.")
    /\ Contains(txOut, "Use A.")

\* --------------------------------------------------- history in the prompt

\* The history holds a usage tag and a closing tag after it.
HistoryHasUsageRegion ==
    LET i == FirstIn(apHistory, {USAGE_OPEN}, 1)
    IN i # 0 /\ FirstIn(apHistory, {SECTION_CLOSE}, i + 1) # 0

\* C23: the history is not cut down to a usage region: when a turn holds a
\* usage tag and a closing tag, the logins and the words of the history,
\* those before and after the region as well, are in the prompt.
C23_HistoryKeptAroundUsageRegion ==
    (apDone /\ HistoryHasUsageRegion) =>
        \A k \in 1..Len(apHistory) :
            apHistory[k] \notin {USAGE_OPEN, SECTION_CLOSE, NL} => Contains(apOut, apHistory[k])

\* -------------------------------------------------------- sanitizer results

\* How many times tok occurs in s.
Count(s, tok) == Cardinality({k \in 1..Len(s) : s[k] = tok})

\* C24: the sanitized text of a context document holds no fenced code block
\* (no pair of fences), and the sanitized history holds every fence of the
\* history.
C24_CodeBlocksByVariant ==
    /\ txStage = "document" => Count(txOut, FENCE) < 2
    /\ txStage = "history" => Count(txOut, FENCE) = Count(txIn, FENCE)

\* The text is made of words and line breaks only.
PlainLines == \A k \in 1..Len(txIn) : txIn[k] \in {"Use A.", NL}

\* C25: the line breaks of a context document are kept, runs of three or
\* more reduced to two; the history is trimmed and its line breaks are
\* replaced by spaces.
C25_DensifiedInHistoryOnly ==
    /\ (txStage = "document" /\ PlainLines) => txOut = collapseNewlines(txIn)
    /\ txStage = "history" => ~Contains(txOut, NL)

\* C26: the result of the sanitizer holds no closing section tag and no
\* opening section tag, whole or as two halves about one space.
C26_NoSectionTagLeft ==
    txStage \in {"document", "history"} =>
        /\ ~Contains(txOut, SECTION_CLOSE)
        /\ ~HasToken(txOut, SectionOpens)
        /\ ~ContainsSeq(txOut, SectionOpenInHalves)

\* ------------------------------------------------- sections of the prompt

\* The prompt up to the files section, and up to the history section.
PromptHead == <<INTRO, NL, NL, REFERENCING, NL>>
IsPrefix(p, s) == Len(p) <= Len(s) /\ Slice(s, 1, Len(p)) = p

\* C27: the prompt holds the "History:" label exactly when the densified
\* history is not empty; the label, the densified history and a line break
\* stand where the history placeholder of the template was, and nothing
\* stands there when the history is empty.
C27_HistorySection ==
    apDone =>
        /\ Contains(apOut, "History:") <=> compressContent(apHistory, FALSE) # <<>>
        /\ ContainsSeq(apOut, <<NL, NL>> \o apRenderedHistory \o <<NL, "Question: ">>)
        /\ ~ContainsSeq(apOut, <<HISTORY_PLACEHOLDER, NL, "Question: ">>)

\* The block of one candidate, and the blocks of a list with a blank line
\* between them.
FileBlock(x) == <<"Package: ", x.package, NL, "Text: ">> \o compressContent(x.content, TRUE)
RECURSIVE FileBlocks(_)
FileBlocks(list) ==
    IF list = <<>> THEN <<>>
    ELSE IF Len(list) = 1 THEN FileBlock(list[1])
    ELSE FileBlock(list[1]) \o <<NL, NL>> \o FileBlocks(Tail(list))

\* C28: the files section of the prompt is the blocks of the candidates
\* given, one per candidate and in their order, a blank line between them;
\* it is empty for an empty list.
C28_FilesSection ==
    apDone => IsPrefix(PromptHead \o FileBlocks(apMostSimilar) \o <<NL, NL>>, apOut)

\* ------------------------------------------------------------ the question

\* The body of the entity that triggered the event.
TriggerBody(ev) ==
    IF ev \in {"issue_comment", "discussion_comment"} THEN COMMENT_BODY
    ELSE IF ev = "discussion" THEN DISCUSSION_BODY
    ELSE ISSUE_BODY

\* C29: the question of a run is the body of the triggering entity, and the
\* embedding is requested for an extracted question only.
C29_QuestionIsTheTriggerBody ==
    /\ (HasDestination(eventName) /\ pc \notin {"load", "main", "crashed"})
          => question = TriggerBody(eventName)
    /\ CallStarted("createEmbedding") => question # UNDEFINED

\* ----------------------------------------------------- trailing disclaimer

\* The place of the last disclaimer heading of the text.
LastHeading(s) ==
    LET S == {k \in 1..Len(s) : s[k] = HEADING}
    IN CHOOSE k \in S : \A j \in S : j <= k

\* C30: stripDisclaimer returns a body without the heading unchanged, and
\* keeps what stands before the trailing disclaimer block, the text after
\* an earlier heading included.
C30_OnlyTheTrailingBlockRemoved ==
    txStage = "stripped" =>
        /\ ~Contains(txIn, HEADING) => txOut = txIn
        /\ (Contains(txIn, HEADING) /\ LastHeading(txIn) < Len(txIn))
              => IsPrefix(Slice(txIn, 1, LastHeading(txIn) - 1), txOut)
====
